---------------------------- MODULE Spec2Model ----------------------------
(***************************************************************************)
(* SERVE (SIMD-Enhanced Range & Value Engine), src/serve.hpp.              *)
(*                                                                         *)
(* Four specifications over one set of definitions:                        *)
(*   Spec        the engine UltimateHybridSearch driven through build /    *)
(*               query / insert / getTotalElements;                        *)
(*   RangeSpec   the engine driven through build / rangeQuery;             *)
(*   BlockSpec   one Block driven through Block::insert / Block::remove /  *)
(*               Block::contains;                                          *)
(*   SearchSpec  one call of Block::search executed loop iteration by loop *)
(*               iteration, so that the windows (low, high) are visible.   *)
(*                                                                         *)
(* Indices are 0-based as in the source; At(data, i) is data[i].           *)
(* A bool returned by the code is "true" / "false"; "fault" is a run that  *)
(* does not return (abort, segmentation fault).                            *)
(***************************************************************************)
EXTENDS Integers, Sequences, FiniteSets

VARIABLES
    avx2,     \* the build defines __AVX2__ (serve.hpp:47)
    blocks,   \* UltimateHybridSearch::blocks (serve.hpp:93)
    model,    \* history: the set of values handed to build and insert so far
    phase,    \* history: "new" | "built" (no insert since build) | "grown"
    op,       \* history: the last public call, its arguments, result, pre-state
    blk,      \* BlockSpec: the Block under test
    bop,      \* BlockSpec history: the last Block call
    sdata,    \* SearchSpec: data of the block searched
    sx,       \* SearchSpec: the argument x of Block::search
    cfg,      \* SearchSpec: position in Block::search: pc, low, high, steps, res
    div       \* SearchSpec history: operands of the division of line 39

vars == <<avx2, blocks, model, phase, op, blk, bop, sdata, sx, cfg, div>>

-----------------------------------------------------------------------------
(* Bounds of the model *)

\* values are drawn from 0 .. MaxVal
MaxVal == 5
\* constexpr int TARGET_BLOCK_SIZE = 4096, scaled
TARGET_BLOCK_SIZE == 2
\* constexpr int MAX_BLOCK_SIZE = 8192, scaled
MAX_BLOCK_SIZE == 3
\* SearchSpec: the short blocks hold values from 0 .. SearchMaxVal
SearchMaxVal == 8
\* SearchSpec: the long blocks hold BigLen evenly spaced values and one far value
BigLen == 40
Far == 100000

Vals == 0 .. MaxVal

-----------------------------------------------------------------------------
(* Sequences as std::vector<int> *)

At(data, i) == data[i + 1]

InBounds(data, i) == i >= 0 /\ i < Len(data)

Range(s) == {s[i] : i \in 1 .. Len(s)}

Slice(s, first, last) == [i \in 1 .. (last - first) |-> s[first + i]]

IsSorted(s) == \A i \in 1 .. Len(s) - 1 : s[i] < s[i + 1]

Min(S) == CHOOSE m \in S : \A y \in S : m <= y

\* std::sort followed by std::unique/erase: the ascending sequence of the
\* distinct values of s
RECURSIVE SetToSeq(_)
SetToSeq(S) == IF S = {} THEN <<>> ELSE <<Min(S)>> \o SetToSeq(S \ {Min(S)})

SortUnique(s) == SetToSeq(Range(s))

\* std::lower_bound over keys[first, first + len): libstdc++'s halving loop.
\* The first position whose key is not less than v.
RECURSIVE LowerBoundLoop(_, _, _, _)
LowerBoundLoop(keys, first, len, v) ==
    IF len <= 0 THEN first
    ELSE LET half == len \div 2
             mid  == first + half
         IN IF At(keys, mid) < v
            THEN LowerBoundLoop(keys, mid + 1, len - half - 1, v)
            ELSE LowerBoundLoop(keys, first, half, v)

\* std::upper_bound over keys[first, first + len): the first position whose
\* key is greater than v.
RECURSIVE UpperBoundLoop(_, _, _, _)
UpperBoundLoop(keys, first, len, v) ==
    IF len <= 0 THEN first
    ELSE LET half == len \div 2
             mid  == first + half
         IN IF v < At(keys, mid)
            THEN UpperBoundLoop(keys, first, half, v)
            ELSE UpperBoundLoop(keys, mid + 1, len - half - 1, v)

LowerBound(keys, v) == LowerBoundLoop(keys, 0, Len(keys), v)

UpperBound(keys, v) == UpperBoundLoop(keys, 0, Len(keys), v)

-----------------------------------------------------------------------------
(* struct Block *)

\* Block(): minVal = 0, maxVal = 0, data empty
EmptyBlock == [minVal |-> 0, maxVal |-> 0, data |-> <<>>]

\* mutant: maxVal taken from front() as well
MakeBlockFrontOnly(d) == [minVal |-> d[1], maxVal |-> d[1], data |-> d]

\* a Block filled by assign(), bounds from front() and back()
MakeBlock(d) == [minVal |-> d[1], maxVal |-> d[Len(d)], data |-> d]

size(b) == Len(b.data)

contains(b, x) == Len(b.data) # 0 /\ x >= b.minVal /\ x <= b.maxVal

\* vector::insert(it, x) at 0-based position pos
InsertAt(d, pos, x) == Slice(d, 0, pos) \o <<x>> \o Slice(d, pos, Len(d))

\* vector::erase(it) at 0-based position pos
EraseAt(d, pos) == Slice(d, 0, pos) \o Slice(d, pos + 1, Len(d))

\* mutant: maxVal is not refreshed after the insertion
BlockInsertStaleMax(b, x) ==
    LET it == LowerBound(b.data, x)
    IN IF it # Len(b.data) /\ At(b.data, it) = x THEN b
       ELSE LET d == InsertAt(b.data, it, x)
            IN [minVal |-> d[1], maxVal |-> b.maxVal, data |-> d]

\* mutant: no test for a value already present
BlockInsertNoDupCheck(b, x) ==
    LET d == InsertAt(b.data, LowerBound(b.data, x), x)
    IN [minVal |-> d[1], maxVal |-> d[Len(d)], data |-> d]

BlockInsert(b, x) ==
    LET it == LowerBound(b.data, x)
    IN IF it # Len(b.data) /\ At(b.data, it) = x THEN b
       ELSE LET d == InsertAt(b.data, it, x)
            IN [minVal |-> d[1], maxVal |-> d[Len(d)], data |-> d]

\* mutant: the bounds are not refreshed after the erase
BlockRemoveStaleBounds(b, x) ==
    LET it == LowerBound(b.data, x)
    IN IF it = Len(b.data) \/ At(b.data, it) # x THEN b
       ELSE [b EXCEPT !.data = EraseAt(b.data, it)]

\* the Block after remove(x)
BlockRemove(b, x) ==
    LET it == LowerBound(b.data, x)
    IN IF it = Len(b.data) \/ At(b.data, it) # x THEN b
       ELSE LET d == EraseAt(b.data, it)
            IN IF Len(d) # 0
               THEN [minVal |-> d[1], maxVal |-> d[Len(d)], data |-> d]
               ELSE [b EXCEPT !.data = d]

\* the bool remove(x) returns
BlockRemoveResult(b, x) ==
    LET it == LowerBound(b.data, x)
    IN ~(it = Len(b.data) \/ At(b.data, it) # x)

-----------------------------------------------------------------------------
(* Block::search, serve.hpp:31-67 *)

\* for (int steps = 0; steps < 3; ++steps)
INTERP_STEPS == 3
\* while (high - low > 32)
SIMD_WINDOW == 32
\* one __m256i holds 8 ints; low = mid + 8 / high = mid + 8
SIMD_LANES == 8
\* size_t arithmetic wraps modulo 2^64.  The model wraps modulo SIZE_MOD: an
\* index at or beyond data.size() is out of bounds whatever the modulus is.
SIZE_MOD == 1048576

SIZE_MAX == SIZE_MOD - 1

\* a - b in size_t
SubW(a, b) == IF a >= b THEN a - b ELSE a - b + SIZE_MOD

\* a + b in size_t
AddW(a, b) == (a + b) % SIZE_MOD

Finish(c, r) == [c EXCEPT !.pc = "done", !.res = r]

\* Undefined behaviour (an index outside data, a conversion of NaN): the call
\* may return either bool or not return at all.
Undefined(c) == {Finish(c, r) : r \in {"true", "false", "fault"}}

\* lines 32-33
SearchStart(data) ==
    IF Len(data) = 0
    THEN [pc |-> "done", low |-> 0, high |-> 0, steps |-> 0, res |-> "false"]
    ELSE [pc |-> "interp", low |-> 0, high |-> Len(data) - 1, steps |-> 0,
          res |-> "none"]

\* every value a size_t can take, up to what data[] distinguishes: the indices
\* of data, and two indices beyond it
AnySizeT(data) == (0 .. Len(data)) \cup {SIZE_MAX}

\* line 39 and the cast of line 40: the values (size_t)pos can take, with
\*   pos = low + ((double)(x - data[low]) / (data[high] - data[low])) * (high - low).
\* A zero divisor gives +-inf, times (high - low) = 0 gives NaN, whose
\* conversion is undefined; so is the conversion of pos <= -1.  Otherwise the
\* conversion truncates; the double product can fall just below an exact
\* integer k (1.0/49*49 < 1), so k - 1 is possible beside k.
CastPos(data, x, low, high) ==
    LET num == x - At(data, low)
        den == At(data, high) - At(data, low)
        w   == high - low
        n   == low * den + num * w          \* pos = n / den when den > 0
    IN IF den = 0 THEN AnySizeT(data)
       ELSE IF den < 0 THEN AnySizeT(data)
       ELSE IF n <= 0 - den THEN AnySizeT(data)
       ELSE IF n < 0 THEN {0}
       ELSE {n \div den} \cup
            (IF n % den = 0 /\ n \div den >= 1 THEN {(n \div den) - 1} ELSE {})

\* std::clamp(v, lo, hi) requires !(hi < lo)
ClampViolated(lo, hi) == hi < lo

\* std::clamp(v, lo, hi): min(max(v, lo), hi) in libstdc++,
\* v < lo ? lo : hi < v ? hi : v in libc++; they differ only when hi < lo
Clamp(v, lo, hi) ==
    IF ~ClampViolated(lo, hi)
    THEN {IF v < lo THEN lo ELSE IF hi < v THEN hi ELSE v}
    ELSE {hi} \cup (IF v < lo THEN {lo} ELSE {})

\* line 40: the values mid can take
MidChoices(data, x, low, high) ==
    UNION {Clamp(v, low + 1, SubW(high, 1)) : v \in CastPos(data, x, low, high)}

\* lines 41-43 for one value of mid
InterpNarrow(data, x, c, mid) ==
    IF ~InBounds(data, mid) THEN Undefined(c)
    ELSE IF At(data, mid) = x THEN {Finish(c, "true")}
    ELSE IF At(data, mid) < x
         THEN {[c EXCEPT !.low = AddW(mid, 1), !.steps = @ + 1]}
         ELSE {[c EXCEPT !.high = SubW(mid, 1), !.steps = @ + 1]}

\* line 39 is reached in configuration c
ReachesDivision(data, x, c) ==
    /\ c.pc = "interp"
    /\ c.steps < INTERP_STEPS
    /\ c.low <= c.high
    /\ InBounds(data, c.low) /\ InBounds(data, c.high)
    /\ At(data, c.low) # x /\ At(data, c.high) # x

\* Stage 1, one iteration of the for loop (lines 36-44), or its exit
InterpStep(data, x, c) ==
    IF c.steps >= INTERP_STEPS THEN {[c EXCEPT !.pc = "simd"]}
    ELSE IF c.low > c.high THEN {Finish(c, "false")}
    ELSE IF ~InBounds(data, c.low) \/ ~InBounds(data, c.high) THEN Undefined(c)
    ELSE IF At(data, c.low) = x \/ At(data, c.high) = x THEN {Finish(c, "true")}
    ELSE (UNION {InterpNarrow(data, x, c, mid) :
                    mid \in MidChoices(data, x, c.low, c.high)})
         \cup (IF ClampViolated(c.low + 1, SubW(c.high, 1))
               THEN {Finish(c, "fault")} ELSE {})

\* Stage 2, one iteration of the while loop (lines 49-56), or its exit;
\* without __AVX2__ the stage is not compiled
SimdStep(data, x, avx, c) ==
    IF ~avx \/ SubW(c.high, c.low) <= SIMD_WINDOW THEN {[c EXCEPT !.pc = "scalar"]}
    ELSE LET mid   == AddW(c.low, SubW(c.high, c.low) \div 2)
             lanes == mid .. (mid + SIMD_LANES - 1)
         IN IF \E i \in lanes : ~InBounds(data, i) THEN Undefined(c)
            ELSE IF \A i \in lanes : x > At(data, i)
                 THEN {[c EXCEPT !.low = AddW(mid, SIMD_LANES)]}
                 ELSE {[c EXCEPT !.high = AddW(mid, SIMD_LANES)]}

\* Stage 3, one iteration of the while loop (lines 60-65), or its exit
ScalarStep(data, x, c) ==
    IF ~(c.low <= c.high) THEN {Finish(c, "false")}
    ELSE LET mid == c.low + (c.high - c.low) \div 2
         IN IF ~InBounds(data, mid) THEN Undefined(c)
            ELSE IF At(data, mid) = x THEN {Finish(c, "true")}
            ELSE IF At(data, mid) < x THEN {[c EXCEPT !.low = AddW(mid, 1)]}
            ELSE {[c EXCEPT !.high = SubW(mid, 1)]}

SearchStep(data, x, avx, c) ==
    CASE c.pc = "interp" -> InterpStep(data, x, c)
      [] c.pc = "simd"   -> SimdStep(data, x, avx, c)
      [] c.pc = "scalar" -> ScalarStep(data, x, c)
      [] OTHER           -> {c}

\* the results the call can end with from the configurations cs
RECURSIVE SearchRun(_, _, _, _)
SearchRun(data, x, avx, cs) ==
    IF \A c \in cs : c.pc = "done" THEN {c.res : c \in cs}
    ELSE SearchRun(data, x, avx, UNION {SearchStep(data, x, avx, c) : c \in cs})

\* Block::search(x) on a block holding data
search(data, x, avx) == SearchRun(data, x, avx, {SearchStart(data)})

-----------------------------------------------------------------------------
(* class UltimateHybridSearch *)

MinVals(bs) == [i \in 1 .. Len(bs) |-> bs[i].minVal]

MaxVals(bs) == [i \in 1 .. Len(bs) |-> bs[i].maxVal]

\* the while loop of findBlockContaining (lines 98-105)
RECURSIVE FindLoop(_, _, _, _, _)
FindLoop(bs, x, left, right, result) ==
    IF ~(left <= right) THEN result
    ELSE LET mid == left + (right - left) \div 2
         IN IF At(bs, mid).maxVal < x
            THEN FindLoop(bs, x, mid + 1, right, result)
            ELSE FindLoop(bs, x, left, mid - 1,
                          IF contains(At(bs, mid), x) THEN mid ELSE result)

findBlockContaining(bs, x) ==
    IF Len(bs) = 0 THEN 0 - 1 ELSE FindLoop(bs, x, 0, Len(bs) - 1, 0 - 1)

\* mutant: the right half is inserted before the left half
splitInsertBefore(bs, idx) ==
    IF idx < 0 \/ idx >= Len(bs) \/ size(At(bs, idx)) <= MAX_BLOCK_SIZE THEN bs
    ELSE LET b     == At(bs, idx)
             mid   == size(b) \div 2
             right == MakeBlock(Slice(b.data, mid, Len(b.data)))
             left  == MakeBlock(Slice(b.data, 0, mid))
         IN Slice(bs, 0, idx) \o <<right, left>> \o Slice(bs, idx + 1, Len(bs))

\* mutant: the split waits for one value more
splitLate(bs, idx) ==
    IF idx < 0 \/ idx >= Len(bs) \/ size(At(bs, idx)) <= MAX_BLOCK_SIZE + 1 THEN bs
    ELSE LET b     == At(bs, idx)
             mid   == size(b) \div 2
             right == MakeBlock(Slice(b.data, mid, Len(b.data)))
             left  == MakeBlock(Slice(b.data, 0, mid))
         IN Slice(bs, 0, idx) \o <<left, right>> \o Slice(bs, idx + 1, Len(bs))

splitBlockIfNeeded(bs, idx) ==
    IF idx < 0 \/ idx >= Len(bs) \/ size(At(bs, idx)) <= MAX_BLOCK_SIZE THEN bs
    ELSE LET b     == At(bs, idx)
             mid   == size(b) \div 2
             right == MakeBlock(Slice(b.data, mid, Len(b.data)))
             left  == MakeBlock(Slice(b.data, 0, mid))
         IN Slice(bs, 0, idx) \o <<left, right>> \o Slice(bs, idx + 1, Len(bs))

\* the for loop of build (lines 139-145) from position i, acc the blocks pushed
RECURSIVE BuildLoop(_, _, _)
BuildLoop(d, i, acc) ==
    IF ~(i < Len(d)) THEN acc
    ELSE LET end == IF i + TARGET_BLOCK_SIZE < Len(d)
                    THEN i + TARGET_BLOCK_SIZE ELSE Len(d)
         IN BuildLoop(d, i + TARGET_BLOCK_SIZE,
                      Append(acc, MakeBlock(Slice(d, i, end))))

\* the blocks after build(input)
build(input) ==
    IF Len(input) = 0 THEN <<>> ELSE BuildLoop(SortUnique(input), 0, <<>>)

\* the results query(x) can end with
query(bs, x, avx) ==
    LET idx == findBlockContaining(bs, x)
    IN IF idx >= 0 THEN search(At(bs, idx).data, x, avx) ELSE {"false"}

\* line 159-160: the index of the block insert(x) goes to
InsertIndex(bs, x) ==
    LET it == UpperBound(MinVals(bs), x)
    IN IF it = 0 THEN 0 ELSE it - 1

\* the blocks after insert(x)
insert(bs, x) ==
    IF Len(bs) = 0 THEN <<BlockInsert(EmptyBlock, x)>>
    ELSE LET idx == InsertIndex(bs, x)
         IN splitBlockIfNeeded([bs EXCEPT ![idx + 1] = BlockInsert(@, x)], idx)

\* the for loop of rangeQuery (lines 168-172) from block it, res the result so far
RECURSIVE RangeLoop(_, _, _, _, _)
RangeLoop(bs, low, high, it, res) ==
    IF ~(it # Len(bs) /\ At(bs, it).minVal <= high) THEN res
    ELSE LET d     == At(bs, it).data
             start == LowerBound(d, low)
             end   == UpperBoundLoop(d, start, Len(d) - start, high)
         IN RangeLoop(bs, low, high, it + 1, res \o Slice(d, start, end))

\* mutant: the first block is looked up by minVal instead of maxVal
rangeQueryByMin(bs, low, high) ==
    RangeLoop(bs, low, high, LowerBound(MinVals(bs), low), <<>>)

rangeQuery(bs, low, high) ==
    RangeLoop(bs, low, high, LowerBound(MaxVals(bs), low), <<>>)

RECURSIVE SumSizes(_, _)
SumSizes(bs, i) == IF i > Len(bs) THEN 0 ELSE size(bs[i]) + SumSizes(bs, i + 1)

getTotalElements(bs) == SumSizes(bs, 1)

-----------------------------------------------------------------------------
(* Spec: the engine under its public operations *)

\* arguments of query, insert and rangeQuery: the values and one beyond each end
Args == (0 - 1) .. (MaxVal + 1)

\* s back to front
Reverse(s) == [i \in 1 .. Len(s) |-> s[Len(s) + 1 - i]]

\* the vectors handed to build: every set of values in descending order, and
\* the same followed by a second copy of its largest value
BuildInputs ==
    {Reverse(SetToSeq(S)) : S \in SUBSET Vals}
    \cup {Append(Reverse(SetToSeq(S)), At(Reverse(SetToSeq(S)), 0)) :
             S \in (SUBSET Vals) \ {{}}}

EngineInit ==
    /\ blocks = <<>>
    /\ model = {}
    /\ phase = "new"
    /\ op = [name |-> "new"]

BlockIdle == blk = EmptyBlock /\ bop = [name |-> "new"]

SearchIdle ==
    /\ sdata = <<>>
    /\ sx = 0
    /\ cfg = SearchStart(<<>>)
    /\ div = [done |-> FALSE]

Init == avx2 \in BOOLEAN /\ EngineInit /\ BlockIdle /\ SearchIdle

Build(input) ==
    /\ blocks' = build(input)
    /\ model' = Range(input)
    /\ phase' = "built"
    /\ op' = [name |-> "build", input |-> input, prior |-> Len(blocks)]
    /\ UNCHANGED <<avx2, blk, bop, sdata, sx, cfg, div>>

Query(x) ==
    /\ \E r \in query(blocks, x, avx2) :
          op' = [name |-> "query", x |-> x, res |-> r]
    /\ UNCHANGED <<avx2, blocks, model, phase, blk, bop, sdata, sx, cfg, div>>

Insert(x) ==
    /\ blocks' = insert(blocks, x)
    /\ model' = model \cup {x}
    /\ phase' = "grown"
    /\ op' = [name |-> "insert", x |-> x, before |-> blocks]
    /\ UNCHANGED <<avx2, blk, bop, sdata, sx, cfg, div>>

RangeQuery(low, high) ==
    /\ op' = [name |-> "rangeQuery", low |-> low, high |-> high,
              res |-> rangeQuery(blocks, low, high)]
    /\ UNCHANGED <<avx2, blocks, model, phase, blk, bop, sdata, sx, cfg, div>>

GetTotalElements ==
    /\ op' = [name |-> "getTotalElements", res |-> getTotalElements(blocks)]
    /\ UNCHANGED <<avx2, blocks, model, phase, blk, bop, sdata, sx, cfg, div>>

Next ==
    \/ \E input \in BuildInputs : Build(input)
    \/ \E x \in Args : Query(x)
    \/ \E x \in Vals : Insert(x)
    \/ GetTotalElements

Spec == Init /\ [][Next]_vars

\* RangeSpec: build and rangeQuery.  rangeQuery does not read avx2.
RangeInit == avx2 = FALSE /\ EngineInit /\ BlockIdle /\ SearchIdle

RangeNext ==
    \/ \E input \in BuildInputs : Build(input)
    \/ \E low \in Args, high \in Args : RangeQuery(low, high)

RangeSpec == RangeInit /\ [][RangeNext]_vars

-----------------------------------------------------------------------------
(* BlockSpec: one Block under insert / remove / contains *)

EngineIdle == EngineInit

BlockInit == avx2 = FALSE /\ EngineIdle /\ BlockIdle /\ SearchIdle

BInsert(x) ==
    /\ blk' = BlockInsert(blk, x)
    /\ bop' = [name |-> "insert", x |-> x, before |-> blk]
    /\ UNCHANGED <<avx2, blocks, model, phase, op, sdata, sx, cfg, div>>

BRemove(x) ==
    /\ blk' = BlockRemove(blk, x)
    /\ bop' = [name |-> "remove", x |-> x, before |-> blk,
               res |-> BlockRemoveResult(blk, x)]
    /\ UNCHANGED <<avx2, blocks, model, phase, op, sdata, sx, cfg, div>>

BContains(x) ==
    /\ bop' = [name |-> "contains", x |-> x, before |-> blk,
               res |-> contains(blk, x)]
    /\ UNCHANGED <<avx2, blocks, model, phase, op, blk, sdata, sx, cfg, div>>

BlockNext ==
    \/ \E x \in Vals : BInsert(x)
    \/ \E x \in Vals : BRemove(x)
    \/ \E x \in Args : BContains(x)

BlockSpec == BlockInit /\ [][BlockNext]_vars

-----------------------------------------------------------------------------
(* SearchSpec: one call of Block::search, one loop iteration per step *)

\* every non-empty block over 0 .. SearchMaxVal
SmallBlocks == {SetToSeq(S) : S \in (SUBSET (0 .. SearchMaxVal)) \ {{}}}

\* 0, 2, 4, ... : evenly spaced, every odd value absent
Even(n) == [i \in 1 .. n |-> 2 * (i - 1)]

\* long blocks whose interpolation estimate is pulled to one end by a far value
BigBlocks == {Append(Even(BigLen), Far), <<0 - Far>> \o Even(BigLen)}

SearchBlocks == SmallBlocks \cup BigBlocks

\* the arguments tried on a block: from one below to one above every value
\* of an evenly spaced run, and the far values
SearchArgs(data) ==
    IF Len(data) <= SearchMaxVal + 1 THEN (0 - 1) .. (SearchMaxVal + 1)
    ELSE ((0 - 1) .. (2 * BigLen)) \cup {0 - Far, Far, Far + 1}

SearchInit ==
    /\ avx2 \in BOOLEAN
    /\ EngineIdle /\ BlockIdle
    /\ sdata \in SearchBlocks
    /\ sx \in SearchArgs(sdata)
    /\ cfg = SearchStart(sdata)
    /\ div = [done |-> FALSE]

\* the operands of line 39 as the step from cfg evaluates it
Division ==
    IF ReachesDivision(sdata, sx, cfg)
    THEN [done |-> TRUE, low |-> cfg.low, high |-> cfg.high,
          divisor |-> At(sdata, cfg.high) - At(sdata, cfg.low)]
    ELSE [done |-> FALSE]

Interp ==
    /\ cfg.pc = "interp"
    /\ cfg' \in InterpStep(sdata, sx, cfg)
    /\ div' = Division
    /\ UNCHANGED <<avx2, blocks, model, phase, op, blk, bop, sdata, sx>>

Simd ==
    /\ cfg.pc = "simd"
    /\ cfg' \in SimdStep(sdata, sx, avx2, cfg)
    /\ div' = [done |-> FALSE]
    /\ UNCHANGED <<avx2, blocks, model, phase, op, blk, bop, sdata, sx>>

Scalar ==
    /\ cfg.pc = "scalar"
    /\ cfg' \in ScalarStep(sdata, sx, cfg)
    /\ div' = [done |-> FALSE]
    /\ UNCHANGED <<avx2, blocks, model, phase, op, blk, bop, sdata, sx>>

SearchNext == Interp \/ Simd \/ Scalar

SearchSpec == SearchInit /\ [][SearchNext]_vars

-----------------------------------------------------------------------------
(* Properties *)

\* the values held by the blocks bs
Stored(bs) == UNION {Range(bs[i].data) : i \in 1 .. Len(bs)}

\* the blocks' data one after the other
RECURSIVE Concat(_, _)
Concat(bs, i) == IF i > Len(bs) THEN <<>> ELSE bs[i].data \o Concat(bs, i + 1)

CeilDiv(n, t) == (n + t - 1) \div t

\* C1 (round-trip membership): after build(S), query(x) returns, and returns
\* true exactly when x is one of the values of S.
C1_RoundTrip ==
    (phase = "built" /\ op.name = "query")
        => op.res = (IF op.x \in model THEN "true" ELSE "false")

\* C2 (insert correctness): after insert(x), query(x) returns true, and so
\* does query(y) for every y the engine held before the insert.
C2_InsertThenQuery ==
    op.name = "insert"
        => \A y \in {op.x} \cup Stored(op.before) :
               query(blocks, y, avx2) = {"true"}

\* an insert of a new value into an engine of several blocks that split one
C2_Witness ==
    /\ op.name = "insert"
    /\ op.x \notin Stored(op.before)
    /\ Len(op.before) >= 2
    /\ Len(blocks) = Len(op.before) + 1

\* C3 (split preserves order): in every reachable state consecutive blocks
\* are ascending and do not overlap: blocks[i].maxVal < blocks[i+1].minVal.
C3_BlocksAscending ==
    \A i \in 1 .. Len(blocks) - 1 : blocks[i].maxVal < blocks[i + 1].minVal

\* an insert that split a block which is not the last, after earlier inserts
C3_Witness ==
    /\ op.name = "insert"
    /\ phase = "grown"
    /\ Len(blocks) = Len(op.before) + 1
    /\ InsertIndex(op.before, op.x) + 1 < Len(op.before)
    /\ Len(blocks) >= 3

\* C4 (range query): on an engine produced by build(S), rangeQuery(low, high)
\* is the strictly ascending sequence of the values v of S with
\* low <= v <= high, each once.
C4_RangeQuery ==
    (phase = "built" /\ op.name = "rangeQuery")
        => /\ IsSorted(op.res)
           /\ Range(op.res) = {v \in model : op.low <= v /\ v <= op.high}

\* a range that starts inside one block, ends inside a later one and leaves
\* values out at both ends
C4_Witness ==
    /\ phase = "built" /\ op.name = "rangeQuery"
    /\ Len(blocks) >= 3
    /\ Len(op.res) >= 3
    /\ \E v \in model : v < op.low
    /\ \E v \in model : v > op.high

\* C5 (interpolation guard): whenever line 39 divides, low # high and the
\* divisor data[high] - data[low] is not zero.  Stated for the arguments the
\* query path passes to search: minVal <= x <= maxVal.
C5_NoZeroWidthDivision ==
    (div.done /\ sdata[1] <= sx /\ sx <= sdata[Len(sdata)])
        => (div.low # div.high /\ div.divisor # 0)

\* C6 (vector stage preserves behaviour): from every window (low, high) the
\* interpolation stage hands over, search with the vector stage and search
\* without it end with the same result.
C6_SimdSameResult ==
    cfg.pc = "simd"
        => SearchRun(sdata, sx, TRUE, {cfg}) = SearchRun(sdata, sx, FALSE, {cfg})

\* C7 (build partitioning): after build(S) with n distinct values the blocks,
\* read one after the other, are the ascending distinct values of S; there
\* are ceil(n / T) of them, each of T values except the last, which has
\* n - T * (ceil(n / T) - 1); minVal and maxVal are the first and last value.
C7_BuildPartition ==
    op.name = "build"
        => LET all == Concat(blocks, 1)
               n   == Len(all)
               k   == Len(blocks)
           IN /\ IsSorted(all)
              /\ Range(all) = Range(op.input)
              /\ k = CeilDiv(n, TARGET_BLOCK_SIZE)
              /\ \A i \in 1 .. k :
                    /\ Len(blocks[i].data) =
                          (IF i < k THEN TARGET_BLOCK_SIZE
                           ELSE n - TARGET_BLOCK_SIZE * (k - 1))
                    /\ blocks[i].minVal = blocks[i].data[1]
                    /\ blocks[i].maxVal = blocks[i].data[Len(blocks[i].data)]

\* a build over an engine that held blocks, from a vector with a duplicate,
\* giving three blocks of which the last is short
C7_Witness ==
    /\ op.name = "build"
    /\ op.prior > 0
    /\ Len(op.input) > Cardinality(Range(op.input))
    /\ Len(blocks) >= 3
    /\ Len(blocks[Len(blocks)].data) < TARGET_BLOCK_SIZE

\* C8 (block invariant): after any inserts and removes on a Block its data is
\* strictly ascending, a non-empty block has minVal = front and
\* maxVal = back, and a remove that empties the block leaves the bounds as
\* they were while contains() is false for every x.
C8_BlockInvariant ==
    /\ IsSorted(blk.data)
    /\ Len(blk.data) # 0
          => (blk.minVal = blk.data[1] /\ blk.maxVal = blk.data[Len(blk.data)])
    /\ (bop.name = "remove" /\ bop.res /\ Len(blk.data) = 0)
          => /\ blk.minVal = bop.before.minVal
             /\ blk.maxVal = bop.before.maxVal
             /\ \A x \in Args : ~contains(blk, x)
    /\ (bop.name = "contains" /\ Len(blk.data) = 0) => ~bop.res

\* a remove that emptied a block whose bounds were not the initial ones
C8_Witness ==
    /\ bop.name = "remove" /\ bop.res
    /\ Len(blk.data) = 0
    /\ blk.minVal > 0

\* C9 (hard cap): after every build and insert every block is non-empty and
\* holds at most MAX_BLOCK_SIZE values; an insert that brings a block to
\* MAX_BLOCK_SIZE + 1 values leaves in its place two adjacent non-empty
\* blocks, cut at the midpoint, whose data joined is that block's data.
C9_HardCap ==
    /\ \A i \in 1 .. Len(blocks) :
          Len(blocks[i].data) >= 1 /\ Len(blocks[i].data) <= MAX_BLOCK_SIZE
    /\ (op.name = "insert" /\ Len(op.before) > 0)
          => LET idx   == InsertIndex(op.before, op.x)
                 grown == BlockInsert(At(op.before, idx), op.x).data
             IN Len(grown) = MAX_BLOCK_SIZE + 1
                   => /\ Len(blocks) = Len(op.before) + 1
                      /\ At(blocks, idx).data \o At(blocks, idx + 1).data = grown
                      /\ Len(At(blocks, idx).data) = (MAX_BLOCK_SIZE + 1) \div 2
                      /\ Len(At(blocks, idx + 1).data) >= 1
                      /\ \A j \in 0 .. Len(op.before) - 1 :
                            /\ j < idx => At(blocks, j) = At(op.before, j)
                            /\ j > idx => At(blocks, j + 1) = At(op.before, j)

\* an insert that brought the first of several blocks over the cap
C9_Witness ==
    /\ op.name = "insert"
    /\ Len(op.before) >= 2
    /\ InsertIndex(op.before, op.x) = 0
    /\ Len(blocks) = Len(op.before) + 1

\* C10 (no duplicates, no loss): every value handed to build and insert since
\* is held by exactly one block, once, and nothing else is held, so
\* getTotalElements is the number of distinct values; inserting a value
\* already held changes no block, inserting a new one adds 1 to the total.
C10_ExactlyOnce ==
    /\ Stored(blocks) = model
    /\ \A v \in model :
          Cardinality({i \in 1 .. Len(blocks) : v \in Range(blocks[i].data)}) = 1
    /\ \A i \in 1 .. Len(blocks) :
          Cardinality(Range(blocks[i].data)) = Len(blocks[i].data)
    /\ getTotalElements(blocks) = Cardinality(model)
    /\ op.name = "getTotalElements" => op.res = Cardinality(model)
    /\ op.name = "insert"
          => IF op.x \in Stored(op.before)
             THEN blocks = op.before
             ELSE getTotalElements(blocks) = getTotalElements(op.before) + 1

\* an insert of a value already held, by a block that is not the first, in
\* an engine that grew by inserts after a build
C10_Witness ==
    /\ op.name = "insert"
    /\ phase = "grown"
    /\ op.x \in Stored(op.before)
    /\ InsertIndex(op.before, op.x) >= 1
    /\ Cardinality(model) > TARGET_BLOCK_SIZE * 2

=============================================================================
